---- MODULE Spec2Model ----
(***************************************************************************)
(* Model of hg_oap/units/unit.py: the unit hierarchy (PrimaryUnit,         *)
(* DerivedUnit, OffsetDerivedUnit, DiffDerivedUnit, ComplexUnit), the      *)
(* interning tables of the unit system, the unit algebra and convert().    *)
(*                                                                         *)
(* Objects live in a heap (the sequence units); an object's identity is    *)
(* its index.  Numbers are exact rationals tagged with their Python type.  *)
(* Every ratio, offset and value of the model is a dyadic rational of      *)
(* small magnitude, and every divisor is a power of two, so each result is *)
(* exactly representable as a Decimal (28 digits) and as a float: on the   *)
(* inputs of the model exact arithmetic is the arithmetic of the code.     *)
(***************************************************************************)
EXTENDS Integers, Sequences, FiniteSets, TLC

VARIABLES
    units,           \* the heap: every unit object allocated so far
    primary_units,   \* UnitSystem.__primary_units__
    derived_units,   \* UnitSystem.__derived_units__
    complex_units,   \* UnitSystem.__complex_units__
    factors,         \* the conversion factors of the unit system
    last,            \* how the last constructor or operator call ended
    conv,            \* the convert() call in progress or just returned
    threads          \* the threads calling PrimaryUnit() concurrently

vars == <<units, primary_units, derived_units, complex_units, factors,
          last, conv, threads>>

\* ------------------------------------------------------------------ bounds
\* Number of unit objects ever allocated.
MaxUnits == 3
\* Nesting depth of convert() calls the model follows.
MaxDepth == 3
\* Number of PrimaryUnit() calls each thread makes.
MaxThreadCalls == 2

None == 0

\* ----------------------------------------------------------------- numbers
Abs(x) == IF x < 0 THEN -x ELSE x

RECURSIVE GCD(_, _)
GCD(a, b) == IF b = 0 THEN a ELSE GCD(b, a % b)

\* The number n/d of Python type t, in lowest terms with d > 0.
Num(t, n, d) ==
    LET g == GCD(Abs(n), Abs(d))
        s == IF d < 0 THEN -1 ELSE 1
    IN  [t |-> t, n |-> s * (n \div g), d |-> s * (d \div g)]

\* The outcome of an arithmetic error (ZeroDivisionError, InvalidOperation).
NumError == [t |-> "error", n |-> 0, d |-> 1]

Dec(n, d) == Num("Decimal", n, d)
IntNum(n) == Num("int", n, 1)
One == Dec(1, 1)

IsError(x) == x.t = "error"

\* scale = None in ComplexUnit.__new__: no scale was given.
NoScale == [t |-> "None", n |-> 0, d |-> 1]

\* Python's == on numbers compares the value, whatever the type.
NumEq(x, y) == ~IsError(x) /\ ~IsError(y) /\ x.n = y.n /\ x.d = y.d

\* The type of the result of a binary operator: int / int is a float, an
\* int meets a float as a float and a Decimal as a Decimal.
ResultType(x, y, isDiv) ==
    IF x.t = y.t THEN (IF x.t = "int" /\ isDiv THEN "float" ELSE x.t)
    ELSE IF "float" \in {x.t, y.t} THEN "float"
    ELSE "Decimal"

\* The(S) is the element of the singleton S.  An operator binds an operand
\* once (a \in {x}) where its body uses the operand often, so that the
\* operand is evaluated once.
The(S) == CHOOSE r \in S : TRUE

Mul(x, y) ==
    The({IF IsError(a) \/ IsError(b) THEN NumError
         ELSE Num(ResultType(a, b, FALSE), a.n * b.n, a.d * b.d) :
         a \in {x}, b \in {y}})

Div(x, y) ==
    The({IF IsError(a) \/ IsError(b) \/ b.n = 0 THEN NumError
         ELSE Num(ResultType(a, b, TRUE), a.n * b.d, a.d * b.n) :
         a \in {x}, b \in {y}})

Add(x, y) ==
    The({IF IsError(a) \/ IsError(b) THEN NumError
         ELSE Num(ResultType(a, b, FALSE), a.n * b.d + b.n * a.d, a.d * b.d) :
         a \in {x}, b \in {y}})

Sub(x, y) ==
    The({IF IsError(a) \/ IsError(b) THEN NumError
         ELSE Num(ResultType(a, b, FALSE), a.n * b.d - b.n * a.d, a.d * b.d) :
         a \in {x}, b \in {y}})

\* pow(x, m) for an integer m.
RECURSIVE Pow(_, _)
Pow(x, m) ==
    IF m = 0 THEN Num(x.t, 1, 1)
    ELSE IF m < 0 THEN Div(Num(x.t, 1, 1), Pow(x, -m))
    ELSE Mul(x, Pow(x, m - 1))

\* type(value)(x): x converted to the type of value.  int() truncates
\* towards zero; float() and Decimal() keep the value.
Coerce(value, x) ==
    The({IF IsError(v) \/ IsError(a) THEN NumError
         ELSE IF v.t = "int"
              THEN IntNum(IF a.n >= 0 THEN a.n \div a.d ELSE -((-a.n) \div a.d))
              ELSE Num(v.t, a.n, a.d) :
         v \in {value}, a \in {x}})

\* -------------------------------------------------------------- dimensions
\* A Dimension is the vector of its exponents over the two base dimensions;
\* dimensions are interned, so `is` on dimensions is equality of vectors.
DimOne == <<0, 0>>
DimMul(a, b) == <<a[1] + b[1], a[2] + b[2]>>
DimDiv(a, b) == <<a[1] - b[1], a[2] - b[2]>>
DimPow(a, m) == <<a[1] * m, a[2] * m>>

\* -------------------------------------------------------------------- heap
\* One record shape for every unit variant; a field a variant does not have
\* holds its default.
NewObj(kind) ==
    [kind |-> kind, dimension |-> DimOne, primary_unit |-> None,
     ratio |-> One, offset |-> Dec(0, 1), offset_unit |-> None,
     components |-> <<>>, scale |-> One, named |-> FALSE]

Ids(h) == 1..Len(h)

\* isinstance(u, DerivedUnit): DerivedUnit and its two subclasses.
IsDerivedUnit(h, u) == h[u].kind \in {"DerivedUnit", "OffsetDerivedUnit", "DiffDerivedUnit"}

\* u._is_multiplicative
is_multiplicative(h, u) == h[u].kind # "OffsetDerivedUnit"

\* u.primary_unit: stored, or offset_unit.primary_unit for a DiffDerivedUnit.
primary_unit_of(h, u) ==
    IF h[u].kind = "DiffDerivedUnit" THEN h[h[u].offset_unit].primary_unit
    ELSE h[u].primary_unit

\* u.dimension
RECURSIVE dimension_of(_, _)
RECURSIVE ComponentsDimension(_, _, _)
ComponentsDimension(h, comps, i) ==
    IF i > Len(comps) THEN DimOne
    ELSE DimMul(DimPow(dimension_of(h, comps[i][1]), comps[i][2]),
                ComponentsDimension(h, comps, i + 1))
dimension_of(h, u) ==
    IF h[u].kind = "PrimaryUnit" THEN h[u].dimension
    ELSE IF h[u].kind = "ComplexUnit" THEN ComponentsDimension(h, h[u].components, 1)
    ELSE dimension_of(h, primary_unit_of(h, u))

\* u.ratio
RECURSIVE ratio_of(_, _)
RECURSIVE ComponentsRatio(_, _, _, _)
ComponentsRatio(h, comps, i, acc) ==
    IF i > Len(comps) THEN acc
    ELSE ComponentsRatio(h, comps, i + 1,
                         Mul(acc, Pow(ratio_of(h, comps[i][1]), comps[i][2])))
ratio_of(h, u) ==
    IF h[u].kind = "PrimaryUnit" THEN One
    ELSE IF h[u].kind = "ComplexUnit"
         THEN Mul(ComponentsRatio(h, h[u].components, 2,
                                  Pow(ratio_of(h, h[u].components[1][1]),
                                      h[u].components[1][2])),
                  h[u].scale)
    ELSE IF h[u].kind = "DiffDerivedUnit" THEN h[h[u].offset_unit].ratio
    ELSE h[u].ratio

\* ------------------------------------------------------- interning tables
\* A table is a set of <<key, object>> pairs with at most one pair a key.  A
\* key is a tuple of cells <<tag, x, y>>: <<"id", u, 0>> is the integer
\* id(u), <<"obj", u, 0>> the object u itself, <<"pair", u, p>> the tuple
\* (id(u), p), <<"num", n, d>> the number n/d and <<"str", 0, 0>> the string
\* 'diff'.  An integer never equals a unit object, so the cells "id" and
\* "obj" of one unit are different keys, as in Python.
IdCell(u) == <<"id", u, 0>>
ObjCell(u) == <<"obj", u, 0>>
PairCell(u, p) == <<"pair", u, p>>
NumCell(x) == <<"num", x.n, x.d>>
DiffCell == <<"str", 0, 0>>
\* Cells of a construction key as the constructor computes it, whatever the
\* table key it is turned into: a unit, a dimension.
UnitCell(u) == <<"unit", u, 0>>
DimCell(d) == <<"dim", d[1], d[2]>>

\* table.get(key): None when the key is absent.
Get(table, key) ==
    IF \E e \in table : e[1] = key
    THEN (CHOOSE e \in table : e[1] = key)[2]
    ELSE None

\* table[key] = value
Put(table, key, value) == {e \in table : e[1] # key} \cup {<<key, value>>}

\* What a constructor does: the object it returns (None when it raises), the
\* heap and the table it leaves, and the key it computed.
Outcome(status, result, h, table, key) ==
    [status |-> status, result |-> result, units |-> h, table |-> table, key |-> key]

\* ------------------------------------------------------------ constructors
\* PrimaryUnit(dimension=dimension)
PrimaryUnit_new(h, pu, dimension) ==
    LET d == Get(pu, dimension)
        n == [NewObj("PrimaryUnit") EXCEPT !.dimension = dimension]
    IN  IF d # None THEN Outcome("ok", d, h, pu, <<DimCell(dimension)>>)
        ELSE Outcome("ok", Len(h) + 1, Append(h, n),
                     Put(pu, dimension, Len(h) + 1), <<DimCell(dimension)>>)

\* A Quantity (value, unit), or a plain unit when isq is FALSE.
Quantity(value, unit) == [isq |-> TRUE, value |-> value, unit |-> unit]
PlainUnit(unit) == [isq |-> FALSE, value |-> One, unit |-> unit]

\* DerivedUnit(primary_unit=arg, ratio=ratio0), arg a unit or a Quantity.
DerivedUnit_new(h, du, arg, ratio0) ==
    LET ratio1 == IF arg.isq THEN arg.value ELSE ratio0
        pu1 == arg.unit
        flat == h[pu1].kind = "DerivedUnit"
        ratio == IF flat THEN Mul(ratio1, h[pu1].ratio) ELSE ratio1
        primary_unit == IF flat THEN h[pu1].primary_unit ELSE pu1
        d == Get(du, <<IdCell(primary_unit), NumCell(ratio)>>)
        n == [NewObj("DerivedUnit") EXCEPT !.primary_unit = primary_unit,
                                           !.ratio = ratio]
        key == <<UnitCell(primary_unit), NumCell(ratio)>>
    IN  IF d # None THEN Outcome("ok", d, h, du, key)
        ELSE Outcome("ok", Len(h) + 1, Append(h, n),
                     Put(du, <<ObjCell(primary_unit), NumCell(ratio)>>, Len(h) + 1),
                     key)

\* OffsetDerivedUnit(primary_unit=pu0, ratio=ratio0, offset=offset)
OffsetDerivedUnit_new(h, du, pu0, ratio0, offset) ==
    LET flat == h[pu0].kind = "DerivedUnit"
        primary_unit == IF flat THEN h[pu0].primary_unit ELSE pu0
        ratio == IF flat THEN Mul(ratio0, ratio_of(h, primary_unit)) ELSE ratio0
        d == Get(du, <<ObjCell(primary_unit), NumCell(ratio), NumCell(offset)>>)
        n == [NewObj("OffsetDerivedUnit") EXCEPT !.primary_unit = primary_unit,
                                                 !.ratio = ratio,
                                                 !.offset = offset]
        key == <<UnitCell(primary_unit), NumCell(ratio), NumCell(offset)>>
    IN  IF d # None THEN Outcome("ok", d, h, du, key)
        ELSE Outcome("ok", Len(h) + 1, Append(h, n),
                     Put(du, <<IdCell(primary_unit), NumCell(ratio), NumCell(offset)>>,
                         Len(h) + 1),
                     key)

\* DiffDerivedUnit(offset_unit=offset_unit)
DiffDerivedUnit_new(h, du, offset_unit) ==
    LET k == <<IdCell(offset_unit), DiffCell>>
        d == Get(du, k)
        n == [NewObj("DiffDerivedUnit") EXCEPT !.offset_unit = offset_unit]
    IN  IF h[offset_unit].kind # "OffsetDerivedUnit"
        THEN Outcome("ValueError", None, h, du, <<UnitCell(offset_unit)>>)
        ELSE IF d # None THEN Outcome("ok", d, h, du, <<UnitCell(offset_unit)>>)
        ELSE Outcome("ok", Len(h) + 1, Append(h, n), Put(du, k, Len(h) + 1),
                     <<UnitCell(offset_unit)>>)

\* u._to_components(power): a unit is one component, except a ComplexUnit
\* with no name of its own and scale 1, which gives its components.
to_components(h, u, power) ==
    IF h[u].kind = "ComplexUnit" /\ ~h[u].named /\ NumEq(h[u].scale, One)
    THEN IF power = 1 THEN h[u].components
         ELSE [i \in 1..Len(h[u].components) |->
                  <<h[u].components[i][1], h[u].components[i][2] * power>>]
    ELSE << <<u, power>> >>

\* The key of a ComplexUnit: the (id(u), p) pairs in their order, and the
\* scale when one was given.
lookup_key(components, scale) ==
    [i \in 1..Len(components) |-> PairCell(components[i][1], components[i][2])]
    \o (IF scale # NoScale THEN <<NumCell(scale)>> ELSE <<>>)

\* ComplexUnit.__new__ without its assertion on the components.
ComplexUnit_new_unchecked(h, cu, components, scale, named) ==
    The({LET k == lookup_key(c, scale)
             d == Get(cu, k)
             n == [NewObj("ComplexUnit") EXCEPT
                      !.components = c,
                      !.scale = IF scale # NoScale THEN scale ELSE One,
                      !.named = named]
         IN  IF d # None THEN Outcome("ok", d, h, cu, k)
             ELSE Outcome("ok", Len(h) + 1, Append(h, n), Put(cu, k, Len(h) + 1), k) :
         c \in {components}})

\* ComplexUnit(components=components, name=...) with scale None, or
\* ComplexUnit(Quantity(scale, unit)) with components unit._to_components().
ComplexUnit_new(h, cu, components, scale, named) ==
    The({LET k == lookup_key(c, scale)
             d == Get(cu, k)
             n == [NewObj("ComplexUnit") EXCEPT
                      !.components = c,
                      !.scale = IF scale # NoScale THEN scale ELSE One,
                      !.named = named]
         IN  IF d # None THEN Outcome("ok", d, h, cu, k)
             ELSE IF ~(\A i \in 1..Len(c) : is_multiplicative(h, c[i][1]))
             THEN Outcome("AssertionError", None, h, cu, k)
             ELSE Outcome("ok", Len(h) + 1, Append(h, n), Put(cu, k, Len(h) + 1), k) :
         c \in {components}})

\* ----------------------------------------------------------------- algebra
\* A defaultdict(int) in insertion order: a sequence of <<unit, exponent>>
\* with no unit twice.  Units are keys by identity (Unit.__hash__).
HasKey(d, u) == \E i \in 1..Len(d) : d[i][1] = u

\* d[u] += p
DictAdd(d, u, p) ==
    The({IF HasKey(e, u)
         THEN [i \in 1..Len(e) |-> IF e[i][1] = u THEN <<u, e[i][2] + p>> ELSE e[i]]
         ELSE Append(e, <<u, p>>) : e \in {d}})

\* d[u] = p
DictSet(d, u, p) ==
    The({IF HasKey(e, u)
         THEN [i \in 1..Len(e) |-> IF e[i][1] = u THEN <<u, p>> ELSE e[i]]
         ELSE Append(e, <<u, p>>) : e \in {d}})

\* defaultdict(int, pairs)
RECURSIVE DictFromPairs(_, _, _)
DictFromPairs(pairs, i, d) ==
    IF i > Len(pairs) THEN d
    ELSE DictFromPairs(pairs, i + 1, DictSet(d, pairs[i][1], pairs[i][2]))

\* for u, p in pairs: d[u] += p
RECURSIVE DictAddAll(_, _, _)
DictAddAll(d, pairs, i) ==
    IF i > Len(pairs) THEN d
    ELSE DictAddAll(DictAdd(d, pairs[i][1], pairs[i][2]), pairs, i + 1)

\* The components self * other (power 1) and self / other (power -1) hand
\* to ComplexUnit: other's components first, then self's added to them.
MulComponents(h, self, other, power) ==
    LET components == DictFromPairs(to_components(h, other, power), 1, <<>>)
    IN  IF h[self].kind = "ComplexUnit"
        THEN DictAddAll(components, to_components(h, self, 1), 1)
        ELSE DictAdd(components, self, 1)

\* The components self ** power hands to ComplexUnit.
PowComponents(h, self, power) ==
    IF h[self].kind = "PrimaryUnit" THEN << <<self, power>> >>
    ELSE IF h[self].kind = "ComplexUnit"
    THEN [i \in 1..Len(h[self].components) |->
             <<h[self].components[i][1], h[self].components[i][2] * power>>]
    ELSE << <<self, 2>> >>

\* self * other
Unit_mul(h, cu, self, other) ==
    ComplexUnit_new(h, cu, MulComponents(h, self, other, 1), NoScale, FALSE)

\* self / other with other's exponents left as they are.
Unit_truediv_unnegated(h, cu, self, other) ==
    ComplexUnit_new(h, cu, MulComponents(h, self, other, 1), NoScale, FALSE)

\* self / other
Unit_truediv(h, cu, self, other) ==
    ComplexUnit_new(h, cu, MulComponents(h, self, other, -1), NoScale, FALSE)

\* self ** power
Unit_pow(h, cu, self, power) ==
    ComplexUnit_new(h, cu, PowComponents(h, self, power), NoScale, FALSE)

\* ------------------------------------------------------------------ inputs
PrimaryDims == {<<1, 0>>, <<0, 1>>}
Ratios == {Dec(1, 2), Dec(2, 1)}
Offsets == {Dec(1, 2)}
Scales == {Dec(2, 1)}
Powers == {-1, 2}
Exponents == {-1, 1}

\* The arguments a caller hands to ComplexUnit directly: one unit with an
\* exponent, with or without a name, or two different units in either order.
ComplexUnitArgs(h) ==
    {[components |-> << <<u, e>> >>, named |-> n] :
        u \in Ids(h), e \in Exponents, n \in BOOLEAN}
    \cup {[components |-> << <<p[1], 1>>, <<p[2], 1>> >>, named |-> FALSE] :
              p \in {q \in Ids(h) \X Ids(h) : q[1] # q[2]}}

\* ------------------------------------------------------------------- state
LastNone == "none"

ConvIdle == [pc |-> "idle", self |-> None, value |-> One, to |-> None,
             self0 |-> None, value0 |-> One, to0 |-> None,
             result |-> One, err |-> "", prim |-> None, chain |-> 0, depth |-> 0]

Threads == {1, 2}
ThreadIdle == [pc |-> "idle", dimension |-> DimOne, result |-> None, calls |-> 0]

Init ==
    /\ units = <<>>
    /\ primary_units = {}
    /\ derived_units = {}
    /\ complex_units = {}
    /\ factors = {}
    /\ last = LastNone
    /\ conv = ConvIdle
    /\ threads = [t \in Threads |-> ThreadIdle]

\* No convert() call is running: the program is sequential, a constructor
\* is not called in the middle of a conversion.
NoCall == conv.pc = "idle"

\* A constructor or operator call with outcome out on table tbl, in a heap
\* of at most n objects.
Call(n, out, tbl) ==
    /\ NoCall
    /\ Len(out.units) <= n
    /\ units' = out.units
    /\ primary_units' = IF tbl = "primary" THEN out.table ELSE primary_units
    /\ derived_units' = IF tbl = "derived" THEN out.table ELSE derived_units
    /\ complex_units' = IF tbl = "complex" THEN out.table ELSE complex_units
    /\ last' = out.status
    /\ conv' = ConvIdle
    /\ UNCHANGED <<factors, threads>>

NewPrimaryUnit(n) ==
    \E dimension \in PrimaryDims :
        Call(n, PrimaryUnit_new(units, primary_units, dimension), "primary")

NewDerivedUnit(n) ==
    \E u \in Ids(units), ratio \in Ratios :
        Call(n, DerivedUnit_new(units, derived_units, PlainUnit(u), ratio), "derived")

NewDerivedUnitOfQuantity(n) ==
    \E u \in Ids(units), value \in Scales :
        Call(n, DerivedUnit_new(units, derived_units, Quantity(value, u), One),
             "derived")

NewOffsetDerivedUnit(n) ==
    \E u \in Ids(units), ratio \in Ratios, offset \in Offsets :
        Call(n, OffsetDerivedUnit_new(units, derived_units, u, ratio, offset),
             "derived")

NewDiffDerivedUnit(n) ==
    \E u \in Ids(units) :
        Call(n, DiffDerivedUnit_new(units, derived_units, u), "derived")

NewComplexUnit(n) ==
    \E a \in ComplexUnitArgs(units) :
        Call(n, ComplexUnit_new(units, complex_units, a.components, NoScale, a.named),
             "complex")

NewComplexUnitOfQuantity(n) ==
    \E u \in Ids(units), scale \in Scales :
        Call(n, ComplexUnit_new(units, complex_units, to_components(units, u, 1),
                                scale, FALSE), "complex")

Multiply(n) ==
    \E self \in Ids(units), other \in Ids(units) :
        Call(n, Unit_mul(units, complex_units, self, other), "complex")

Divide(n) ==
    \E self \in Ids(units), other \in Ids(units) :
        Call(n, Unit_truediv(units, complex_units, self, other), "complex")

Power(n) ==
    \E self \in Ids(units), power \in Powers :
        Call(n, Unit_pow(units, complex_units, self, power), "complex")

Next ==
    \/ NewPrimaryUnit(MaxUnits)
    \/ NewDerivedUnit(MaxUnits)
    \/ NewDerivedUnitOfQuantity(MaxUnits)
    \/ NewOffsetDerivedUnit(MaxUnits)
    \/ NewDiffDerivedUnit(MaxUnits)
    \/ NewComplexUnit(MaxUnits)
    \/ NewComplexUnitOfQuantity(MaxUnits)
    \/ Multiply(MaxUnits)
    \/ Divide(MaxUnits)
    \/ Power(MaxUnits)

Spec == Init /\ [][Next]_vars

\* -------------------------------------------------------------- conversion
\* What a _do_convert call gives: the value it returns or the error it
\* raises, and prim, the PrimaryUnit whose _do_convert the chain entered
\* (None when it entered none).
DoReturn(value, prim) ==
    [status |-> IF IsError(value) THEN "ArithmeticError" ELSE "ok",
     value |-> value, prim |-> prim, chain |-> 1]

\* self._do_convert(value, to), by the class of self.
RECURSIVE do_convert(_, _, _, _)
do_convert(h, self, value, to) ==
    IF h[self].kind = "PrimaryUnit"
    THEN IF h[to].kind = "OffsetDerivedUnit"
         THEN DoReturn(Sub(Div(value, Coerce(value, ratio_of(h, to))),
                           Coerce(value, h[to].offset)), self)
         ELSE IF IsDerivedUnit(h, to)
         THEN DoReturn(Div(value, Coerce(value, ratio_of(h, to))), self)
         ELSE [status |-> "AssertFalse", value |-> NumError, prim |-> self,
               chain |-> 1]
    ELSE IF h[self].kind = "ComplexUnit"
    THEN DoReturn(Mul(Coerce(value, Div(ratio_of(h, self), ratio_of(h, to))), value),
                  None)
    ELSE LET primary_value ==
                 IF h[self].kind = "OffsetDerivedUnit"
                 THEN Mul(Add(value, Coerce(value, h[self].offset)),
                          Coerce(value, ratio_of(h, self)))
                 ELSE Mul(value, Coerce(value, ratio_of(h, self)))
         IN  IF to # primary_unit_of(h, self)
             THEN [do_convert(h, primary_unit_of(h, self), primary_value, to)
                      EXCEPT !.chain = @ + 1]
             ELSE DoReturn(primary_value, None)

\* UnitSystem.conversion_factor(dimension): the factors table holds
\* <<dimension, Quantity>> pairs, a factor under the dimension of its unit.
HasFactor(fs, dimension) == \E e \in fs : e[1] = dimension
conversion_factor(fs, dimension) == (CHOOSE e \in fs : e[1] = dimension)[2]

\* converted_units left as self.
converted_units_unchanged(h, cu, self, factor) == Outcome("ok", self, h, cu, <<>>)

\* converted_units = self * conversion_factor.unit
converted_units_of(h, cu, self, factor) == Unit_mul(h, cu, self, factor.unit)

\* One invocation of self.convert(value, to): it returns (pc "done"), raises
\* (pc "error") or ends in the call converted_units.convert(converted_value,
\* to) (pc "convert"), having built converted_units.
Unit_convert(h, cu, fs, self, value, to) ==
    LET quotient == DimDiv(dimension_of(h, to), dimension_of(h, self))
        factor == conversion_factor(fs, quotient)
        converted_value == Mul(value, Coerce(value, factor.value))
        base == [pc |-> "done", result |-> value, err |-> "", prim |-> None,
                 chain |-> 0, self |-> self, value |-> value, units |-> h, complex_units |-> cu]
    IN  IF to = self THEN base
        ELSE IF dimension_of(h, self) = dimension_of(h, to)
        THEN The({IF same.status = "ok"
                  THEN [base EXCEPT !.result = same.value, !.prim = same.prim,
                                    !.chain = same.chain]
                  ELSE [base EXCEPT !.pc = "error", !.err = same.status,
                                    !.prim = same.prim, !.chain = same.chain] :
                  same \in {do_convert(h, self, value, to)}})
        ELSE IF HasFactor(fs, quotient)
        THEN The({IF converted_units.status = "ok"
                  THEN [base EXCEPT !.pc = "convert", !.self = converted_units.result,
                                    !.value = converted_value,
                                    !.units = converted_units.units,
                                    !.complex_units = converted_units.table]
                  ELSE [base EXCEPT !.pc = "error", !.err = "AssertMultiplicative"] :
                  converted_units \in {converted_units_of(h, cu, self, factor)}})
        ELSE [base EXCEPT !.pc = "error", !.err = "ValueError"]

FactorValues == {Dec(5, 2)}
Values == {IntNum(1), Dec(-3, 2)}

\* UnitSystem: a conversion factor Quantity(value, u) is registered under
\* the dimension of u.
RegisterFactor(n) ==
    \E u \in Ids(units), value \in FactorValues :
        /\ NoCall
        /\ Len(units) <= n
        /\ factors' = {e \in factors : e[1] # dimension_of(units, u)}
                      \cup {<<dimension_of(units, u), [value |-> value, unit |-> u]>>}
        /\ last' = LastNone
        /\ conv' = ConvIdle
        /\ UNCHANGED <<units, primary_units, derived_units, complex_units, threads>>

\* The program calls self.convert(value, to).
ConvertCall(n) ==
    \E self \in Ids(units), to \in Ids(units), value \in Values :
        /\ NoCall
        /\ Len(units) <= n
        /\ conv' = [ConvIdle EXCEPT !.pc = "convert", !.self = self, !.value = value,
                                    !.to = to, !.self0 = self, !.value0 = value,
                                    !.to0 = to]
        /\ last' = LastNone
        /\ UNCHANGED <<units, primary_units, derived_units, complex_units, factors,
                       threads>>

\* The body of convert runs once, for the call at hand.
ConvertStep ==
    /\ conv.pc = "convert"
    /\ conv.depth < MaxDepth
    /\ \E r \in {Unit_convert(units, complex_units, factors, conv.self, conv.value,
                             conv.to)} :
           /\ conv' = [conv EXCEPT !.pc = r.pc, !.self = r.self, !.value = r.value,
                                   !.result = r.result, !.err = r.err,
                                   !.prim = r.prim, !.chain = r.chain,
                                   !.depth = IF r.pc = "convert" THEN @ + 1 ELSE @]
           /\ units' = r.units
           /\ complex_units' = r.complex_units
    /\ UNCHANGED <<primary_units, derived_units, factors, last, threads>>

\* The caller takes what convert returned or raised.
ConvertReturn ==
    /\ conv.pc \in {"done", "error"}
    /\ conv' = ConvIdle
    /\ UNCHANGED <<units, primary_units, derived_units, complex_units, factors,
                   last, threads>>

NextConvert ==
    \/ NewPrimaryUnit(MaxUnits)
    \/ NewDerivedUnit(MaxUnits)
    \/ NewOffsetDerivedUnit(MaxUnits)
    \/ Multiply(MaxUnits)
    \/ Divide(MaxUnits)
    \/ RegisterFactor(MaxUnits)
    \/ ConvertCall(MaxUnits)
    \/ ConvertStep
    \/ ConvertReturn

SpecConvert == Init /\ [][NextConvert]_vars

\* convert runs to its end once called: the program does not stop in the
\* middle of a call.
FairSpecConvert == SpecConvert /\ WF_vars(ConvertStep)

\* Products and quotients of primary and derived units and the conversions
\* between them, with room for a, b, a * b and (a * b) / b beside a
\* primary unit.
NextAlgebra ==
    \/ NewPrimaryUnit(MaxUnits + 1)
    \/ NewDerivedUnit(MaxUnits + 1)
    \/ Multiply(MaxUnits + 1)
    \/ Divide(MaxUnits + 1)
    \/ ConvertCall(MaxUnits + 1)
    \/ ConvertStep
    \/ ConvertReturn

SpecAlgebra == Init /\ [][NextAlgebra]_vars

\* ----------------------------------------------------------------- threads
\* Thread t calls PrimaryUnit(dimension=dimension).
ThreadCall(t) ==
    \E dimension \in PrimaryDims :
        /\ threads[t].pc \in {"idle", "done"}
        /\ threads[t].calls < MaxThreadCalls
        /\ threads' = [threads EXCEPT ![t] = [pc |-> "lookup", dimension |-> dimension,
                                              result |-> None, calls |-> @.calls + 1]]
        /\ UNCHANGED <<units, primary_units, derived_units, complex_units, factors,
                       last, conv>>

\* Thread t looks the dimension up and returns what it finds.
ThreadLookup(t) ==
    /\ threads[t].pc = "lookup"
    /\ LET d == Get(primary_units, threads[t].dimension)
       IN  threads' = [threads EXCEPT ![t].pc = IF d # None THEN "done" ELSE "insert",
                                      ![t].result = d]
    /\ UNCHANGED <<units, primary_units, derived_units, complex_units, factors,
                   last, conv>>

\* Thread t, having found nothing, allocates the unit and registers it.
ThreadInsert(t) ==
    /\ threads[t].pc = "insert"
    /\ LET n == [NewObj("PrimaryUnit") EXCEPT !.dimension = threads[t].dimension]
       IN  /\ units' = Append(units, n)
           /\ primary_units' = Put(primary_units, threads[t].dimension, Len(units) + 1)
           /\ threads' = [threads EXCEPT ![t].pc = "done", ![t].result = Len(units) + 1]
    /\ UNCHANGED <<derived_units, complex_units, factors, last, conv>>

NextThreads ==
    \E t \in Threads : ThreadCall(t) \/ ThreadLookup(t) \/ ThreadInsert(t)

SpecThreads == Init /\ [][NextThreads]_vars

\* ================================================================== claims
\* The arguments that made unit u: calling the constructor of u's class
\* with them again is a second call with the same construction key.
Again(u) ==
    LET o == units[u]
    IN  IF o.kind = "PrimaryUnit"
        THEN PrimaryUnit_new(units, primary_units, o.dimension)
        ELSE IF o.kind = "DerivedUnit"
        THEN DerivedUnit_new(units, derived_units, PlainUnit(o.primary_unit), o.ratio)
        ELSE IF o.kind = "OffsetDerivedUnit"
        THEN OffsetDerivedUnit_new(units, derived_units, o.primary_unit, o.ratio,
                                   o.offset)
        ELSE IF o.kind = "DiffDerivedUnit"
        THEN DiffDerivedUnit_new(units, derived_units, o.offset_unit)
        ELSE ComplexUnit_new(units, complex_units, o.components,
                             IF NumEq(o.scale, One) THEN NoScale ELSE o.scale, o.named)

\* The construction key of unit u.
KeyOf(u) ==
    LET o == units[u]
    IN  IF o.kind = "PrimaryUnit" THEN <<DimCell(o.dimension)>>
        ELSE IF o.kind = "DerivedUnit"
        THEN <<UnitCell(o.primary_unit), NumCell(o.ratio)>>
        ELSE IF o.kind = "OffsetDerivedUnit"
        THEN <<UnitCell(o.primary_unit), NumCell(o.ratio), NumCell(o.offset)>>
        ELSE IF o.kind = "DiffDerivedUnit" THEN <<UnitCell(o.offset_unit)>>
        ELSE lookup_key(o.components, IF NumEq(o.scale, One) THEN NoScale ELSE o.scale)

\* C1: two construction calls of one unit variant with equal keys return the
\* identical object, and calls with unequal keys never return the same
\* object: constructing any existing unit again from its own key returns that
\* unit, and no two units of one variant have the same key.
C1_Interning ==
    /\ \A u \in Ids(units) : Again(u).result = u
    /\ \A u \in Ids(units), v \in Ids(units) :
           (u # v /\ units[u].kind = units[v].kind) => KeyOf(u) # KeyOf(v)

\* C4: every DerivedUnit and OffsetDerivedUnit stores a PrimaryUnit as its
\* primary_unit, and a DerivedUnit or OffsetDerivedUnit built with ratio r2
\* from a DerivedUnit of primary p and ratio r1 has primary_unit p and ratio
\* r1 * r2; built from a Quantity (k, u), a DerivedUnit has ratio k
\* relative to u.
C4_Flattened ==
    /\ \A u \in Ids(units) :
           units[u].kind \in {"DerivedUnit", "OffsetDerivedUnit"}
               => units[units[u].primary_unit].kind = "PrimaryUnit"
    /\ \A d \in Ids(units), r2 \in Ratios :
           units[d].kind = "DerivedUnit" =>
               LET out == DerivedUnit_new(units, derived_units, PlainUnit(d), r2)
                   n == out.units[out.result]
               IN  /\ n.primary_unit = units[d].primary_unit
                   /\ NumEq(n.ratio, Mul(units[d].ratio, r2))
    /\ \A d \in Ids(units), r2 \in Ratios, f \in Offsets :
           units[d].kind = "DerivedUnit" =>
               LET out == OffsetDerivedUnit_new(units, derived_units, d, r2, f)
                   n == out.units[out.result]
               IN  /\ n.primary_unit = units[d].primary_unit
                   /\ NumEq(n.ratio, Mul(units[d].ratio, r2))
    /\ \A u \in Ids(units), k \in Scales :
           units[u].kind \in {"PrimaryUnit", "DerivedUnit"} =>
               LET out == DerivedUnit_new(units, derived_units, Quantity(k, u), One)
                   n == out.units[out.result]
               IN  NumEq(n.ratio, Mul(k, ratio_of(units, u)))

\* C5: ComplexUnit interning ignores the order of the components: a
\* ComplexUnit built from the components of an existing one in the other
\* order is that one, and b * a, computed after a * b, is the object a * b.
Reverse(seq) == [i \in 1..Len(seq) |-> seq[Len(seq) + 1 - i]]

C5_OrderIgnored ==
    /\ \A u \in Ids(units) :
           (units[u].kind = "ComplexUnit" /\ NumEq(units[u].scale, One)) =>
               ComplexUnit_new(units, complex_units, Reverse(units[u].components),
                               NoScale, units[u].named).result = u
    /\ \A a \in Ids(units), b \in Ids(units) :
           (is_multiplicative(units, a) /\ is_multiplicative(units, b)) =>
               LET ab == Unit_mul(units, complex_units, a, b)
                   ba == Unit_mul(ab.units, ab.table, b, a)
               IN  ba.result = ab.result

\* The ComplexUnit constructions a caller can make in the present state: the
\* component tuple and scale each hands to ComplexUnit.__new__.
Construction(components, scale, named) ==
    [components |-> components, scale |-> scale, named |-> named]

Constructions ==
    {Construction(a.components, NoScale, a.named) : a \in ComplexUnitArgs(units)}
    \cup {Construction(to_components(units, u, 1), k, FALSE) :
             u \in Ids(units), k \in Scales}
    \cup {Construction(MulComponents(units, a, b, 1), NoScale, FALSE) :
             a \in Ids(units), b \in Ids(units)}
    \cup {Construction(MulComponents(units, a, b, -1), NoScale, FALSE) :
             a \in Ids(units), b \in Ids(units)}
    \cup {Construction(PowComponents(units, a, n), NoScale, FALSE) :
             a \in Ids(units), n \in Powers}

HasOffsetUnit(components) ==
    \E i \in 1..Len(components) : units[components[i][1]].kind = "OffsetDerivedUnit"

\* The components with every OffsetDerivedUnit replaced by its diff unit, in
\* the heap h where those diff units live.
WithDiff(h, du, components) ==
    [i \in 1..Len(components) |->
        IF h[components[i][1]].kind = "OffsetDerivedUnit"
        THEN <<DiffDerivedUnit_new(h, du, components[i][1]).result, components[i][2]>>
        ELSE components[i]]

\* The heap and table after o.diff was read for every OffsetDerivedUnit o.
RECURSIVE AllDiffs(_, _, _)
AllDiffs(h, du, u) ==
    IF u > Len(units) THEN [units |-> h, table |-> du]
    ELSE IF units[u].kind = "OffsetDerivedUnit"
    THEN LET out == DiffDerivedUnit_new(h, du, u)
         IN  AllDiffs(out.units, out.table, u + 1)
    ELSE AllDiffs(h, du, u + 1)

\* C3: no registered ComplexUnit has a non-multiplicative component; a
\* construction (direct, of a Quantity, or through *, / or **) whose
\* components include an OffsetDerivedUnit raises and leaves the heap and the
\* table as they were, and the same construction with the diff unit in the
\* place of each offset unit returns a unit.
C3_OnlyMultiplicativeComponents ==
    /\ \A u \in Ids(units) :
           units[u].kind = "ComplexUnit" =>
               \A i \in 1..Len(units[u].components) :
                   is_multiplicative(units, units[u].components[i][1])
    /\ \A e \in complex_units :
           \A i \in 1..Len(units[e[2]].components) :
               units[units[e[2]].components[i][1]].kind # "OffsetDerivedUnit"
    /\ \A c \in Constructions :
           HasOffsetUnit(c.components) =>
               LET out == ComplexUnit_new(units, complex_units, c.components,
                                          c.scale, c.named)
                   d == AllDiffs(units, derived_units, 1)
                   alt == ComplexUnit_new(d.units, complex_units,
                                          WithDiff(d.units, d.table, c.components),
                                          c.scale, c.named)
               IN  /\ out.status = "AssertionError"
                   /\ out.result = None
                   /\ out.units = units
                   /\ out.table = complex_units
                   /\ alt.status = "ok"
                   /\ alt.result \in Ids(alt.units)
    /\ last = "AssertionError" =>
           \E u \in Ids(units) : units[u].kind = "OffsetDerivedUnit"

\* A construction with an OffsetDerivedUnit among its components was
\* rejected, beside a registered ComplexUnit.
C3_Witness ==
    /\ last = "AssertionError"
    /\ \E u \in Ids(units) : units[u].kind = "ComplexUnit"
    /\ \E u \in Ids(units) : units[u].kind = "OffsetDerivedUnit"

\* ------------------------------------------------------ conversion claims
\* A convert() call has returned or raised.
Returned == conv.pc \in {"done", "error"}

\* The value of x as a Decimal: the number the claim computes with.
Exact(x) == Dec(x.n, x.d)

\* C2: conversion between a unit and its primary unit round-trips exactly:
\* after d.convert(v, p) for a DerivedUnit d of primary p,
\* p.convert(d.convert(v, p), d) == v; and after p.convert(v, o) for an
\* OffsetDerivedUnit o of primary p, ratio r and offset f, the call returned
\* v / r - f and o.convert(p.convert(v, o), p) == v.
C2_RoundTrip ==
    LET d == conv.self0
        p == conv.to0
        back == Unit_convert(units, complex_units, factors, conv.to0, conv.result,
                             conv.self0)
    IN  /\ (/\ Returned
            /\ units[d].kind = "DerivedUnit"
            /\ p = units[d].primary_unit
            /\ units[p].kind = "PrimaryUnit")
           => /\ conv.pc = "done"
              /\ back.pc = "done"
              /\ NumEq(back.result, conv.value0)
        /\ (/\ Returned
            /\ units[p].kind = "OffsetDerivedUnit"
            /\ d = units[p].primary_unit
            /\ units[d].kind = "PrimaryUnit")
           => /\ conv.pc = "done"
              /\ NumEq(conv.result,
                       Sub(Div(Exact(conv.value0), units[p].ratio), units[p].offset))
              /\ back.pc = "done"
              /\ NumEq(back.result, conv.value0)

\* C6: `assert False` of PrimaryUnit._do_convert is not reached from
\* convert, and when PrimaryUnit._do_convert is entered, to is a DerivedUnit
\* or OffsetDerivedUnit whose primary_unit is that primary unit.
C6_AssertUnreachable ==
    Returned =>
        /\ conv.err # "AssertFalse"
        /\ conv.prim # None =>
               /\ IsDerivedUnit(units, conv.to)
               /\ primary_unit_of(units, conv.to) = conv.prim

\* The units a * b and (a * b) / b, when both are in the heap already.
Product(a, b) == Unit_mul(units, complex_units, a, b)
Quotient(a, b) == Unit_truediv(units, complex_units, Product(a, b).result, b)
HasQuotient(a, b) ==
    /\ is_multiplicative(units, a)
    /\ is_multiplicative(units, b)
    /\ Product(a, b).status = "ok"
    /\ Product(a, b).units = units
    /\ Quotient(a, b).status = "ok"
    /\ Quotient(a, b).units = units

\* C7: for multiplicative a and b the unit (a * b) / b has the dimension and
\* the ratio of a, and ((a * b) / b).convert(v, a) returns v.
C7_MulDivCancels ==
    \A a \in Ids(units), b \in Ids(units) :
        HasQuotient(a, b) =>
            LET q == Quotient(a, b).result
            IN  /\ dimension_of(units, q) = dimension_of(units, a)
                /\ NumEq(ratio_of(units, q), ratio_of(units, a))
                /\ (Returned /\ conv.self0 = q /\ conv.to0 = a)
                       => (conv.pc = "done" /\ NumEq(conv.result, conv.value0))

\* ((a * b) / b).convert(v, a) has returned, for a DerivedUnit a and another
\* unit b, through ComplexUnit._do_convert.
C7_Witness ==
    \E a \in Ids(units), b \in Ids(units) :
        /\ HasQuotient(a, b)
        /\ a # b
        /\ units[a].kind = "DerivedUnit"
        /\ Quotient(a, b).result # a
        /\ conv.pc = "done"
        /\ conv.self0 = Quotient(a, b).result
        /\ conv.to0 = a

\* C8: when self and to differ in dimension and no factor is registered for
\* to.dimension / self.dimension, convert raises the ValueError and returns
\* nothing; with a factor (f, u) registered it goes on as
\* (self * u).convert(value * f, to).
C8_CrossDimension ==
    LET quotient == DimDiv(dimension_of(units, conv.to0), dimension_of(units, conv.self0))
        factor == conversion_factor(factors, quotient)
        su == Unit_mul(units, complex_units, conv.self0, factor.unit)
    IN  (/\ conv.pc # "idle"
         /\ conv.self0 # conv.to0
         /\ quotient # DimOne
         /\ Returned \/ conv.depth > 0)
        => IF HasFactor(factors, quotient)
           THEN /\ conv.depth > 0 => /\ conv.self = su.result
                                     /\ NumEq(conv.value, Mul(conv.value0, factor.value))
                /\ conv.depth = 0 => (conv.pc = "error" /\ su.status # "ok")
           ELSE conv.pc = "error" /\ conv.err = "ValueError"

\* C10: every convert call terminates, with a value or an error: the chain
\* of _do_convert calls through primary units is no longer than the number
\* of units there are, and the cross-dimension branch calls convert again
\* at most once.
C10_Terminates ==
    /\ [](conv.depth <= 1 /\ conv.chain <= Len(units))
    /\ (conv.pc = "convert") ~> Returned

\* A cross-dimension conversion went through a conversion factor and
\* returned a value.
C10_Witness == conv.pc = "done" /\ conv.depth = 1 /\ conv.chain = 1

\* ---------------------------------------------------------- thread claims
\* C9: when two threads construct a PrimaryUnit for the same dimension
\* concurrently, both calls return the same object and one PrimaryUnit
\* object is ever created for the dimension.
C9_AtomicLookupInsert ==
    /\ \A t1 \in Threads, t2 \in Threads :
           (/\ threads[t1].pc = "done"
            /\ threads[t2].pc = "done"
            /\ threads[t1].dimension = threads[t2].dimension)
           => threads[t1].result = threads[t2].result
    /\ \A dimension \in PrimaryDims :
           Cardinality({u \in Ids(units) : units[u].dimension = dimension}) <= 1

====
